---- MODULE Spec2Model ----
(***************************************************************************)
(* The takeoff canvas of Structura: the annotation state machine, scale    *)
(* calibration, quantity derivation, document loading and PDF page         *)
(* rendering of the Takeoff component.  The repository holds two revisions *)
(* of the component, src/pages/Takeoff.tsx ("pages") and                   *)
(* src/unnamed/part_004 ("part_004"); the handlers that differ between     *)
(* them take the revision as their first parameter rev.                    *)
(*                                                                         *)
(* React state is modelled by one variable per useState cell.  A handler   *)
(* is one action: the state updates it queues are committed together, and  *)
(* the effects that depend on the changed cells run in the same step.      *)
(* What follows an await or a timer is a separate action.                  *)
(***************************************************************************)
EXTENDS Integers, Sequences, FiniteSets, TLC

\* ------------------------------------------------------------------ bounds

\* Date.now() takes the values 0..MaxClock.
MaxClock == 1
\* An in-progress annotation holds at most MaxPoints points.
MaxPoints == 2
\* The line-item list holds at most MaxItems items.
MaxItems == 2
\* At most MaxTasks asynchronous loads and page renders are in flight.
MaxTasks == 2
\* A PDF document has PdfPages pages.
PdfPages == 2
\* A measured path or ring has at most MaxRing points.
MaxRing == 4
\* retryOperation is called with maxRetries in 0..MaxRetries.
MaxRetries == 3
\* Where the zoom steps are bounded, the zoom level stays within
\* MaxZoomSteps steps of 0.1 around the fitted level 1.5.
MaxZoomSteps == 1

\* ------------------------------------------------------------------ values

\* null, and a present value, of a nullable cell.
NULL == <<>>
Some(v) == <<v>>
Val(o) == o[1]

ToolType == {"select", "pan", "count", "linear", "area", "scale"}
DrawingTools == {"count", "linear", "area", "scale"}

\* Document-space points a click can produce.  All pairwise distances are
\* whole numbers, so the square root below is exact.
ClickPoints == {[x |-> 0, y |-> 0], [x |-> 3, y |-> 4]}

\* Mouse buttons of a pointer-down: 0 is the main button, 1 the middle one.
Buttons == {0, 1}

\* Files the file input can hand over: MIME type and whether size > 20 MB.
FileTypes == {"application/pdf", "image/png", "text/plain"}
Files == [type : FileTypes, big : BOOLEAN]

\* What prompt() returns: null on cancel, otherwise the typed text, as a
\* sequence of characters.
PromptTexts ==
    { <<>>, <<"a", "b">>, <<"1", "0">>, <<"0">>, <<"-", "5">>, <<"5", "f", "t">> }
PromptResults == {NULL} \cup {Some(s) : s \in PromptTexts}

\* ------------------------------------------------------------------ numbers

Abs(n) == IF n < 0 THEN -n ELSE n
Min(a, b) == IF a < b THEN a ELSE b
Max(a, b) == IF a > b THEN a ELSE b

RECURSIVE Gcd(_, _)
Gcd(a, b) == IF b = 0 THEN a ELSE Gcd(b, a % b)

\* Math.sqrt on the whole numbers the model uses (floor of the root).
RECURSIVE SqrtFrom(_, _)
SqrtFrom(n, r) == IF (r + 1) * (r + 1) > n THEN r ELSE SqrtFrom(n, r + 1)
Sqrt(n) == SqrtFrom(n, 0)

\* A JavaScript number that is a ratio num/den of whole numbers; den = 0
\* with num > 0 is Infinity.  Kept in lowest terms with den >= 0, so that
\* equal numbers are equal records.
Ratio(n, d) ==
    IF d = 0 THEN [num |-> IF n > 0 THEN 1 ELSE IF n < 0 THEN -1 ELSE 0, den |-> 0]
    ELSE LET s == IF d < 0 THEN -1 ELSE 1
             g == Gcd(Abs(n), Abs(d))
         IN  [num |-> (s * n) \div g, den |-> (s * d) \div g]
Zero == Ratio(0, 1)
IsPositive(r) == r.num > 0

\* parseFloat(qty.toFixed(2)) of the number n/d (d > 0, n >= 0), in hundredths.
ToFixed2(n, d) == (200 * n + d) \div (2 * d)

\* ------------------------------------------------------------------ prompt

Digits == {"0", "1", "2", "3", "4", "5", "6", "7", "8", "9"}
DigitValue(c) ==
    CASE c = "0" -> 0 [] c = "1" -> 1 [] c = "2" -> 2 [] c = "3" -> 3 [] c = "4" -> 4
      [] c = "5" -> 5 [] c = "6" -> 6 [] c = "7" -> 7 [] c = "8" -> 8 [] c = "9" -> 9

\* The value of the longest all-digit prefix of s, starting from acc; seen
\* tells whether a digit was read.
RECURSIVE ParseDigits(_, _, _)
ParseDigits(s, acc, seen) ==
    IF s # <<>> /\ Head(s) \in Digits
    THEN ParseDigits(Tail(s), 10 * acc + DigitValue(Head(s)), TRUE)
    ELSE [value |-> acc, seen |-> seen]

\* parseFloat on texts of signs, digits and letters: NULL stands for NaN.
parseFloat(s) ==
    LET neg  == s # <<>> /\ Head(s) = "-"
        body == IF s # <<>> /\ Head(s) \in {"-", "+"} THEN Tail(s) ELSE s
        p    == ParseDigits(body, 0, FALSE)
    IN  IF p.seen THEN Some(IF neg THEN -p.value ELSE p.value) ELSE NULL

\* dist && !isNaN(parseFloat(dist)): null and the empty text are falsy.
IsNumericInput(dist) ==
    dist # NULL /\ Val(dist) # <<>> /\ parseFloat(Val(dist)) # NULL

\* ------------------------------------------------------------------ geometry

calculateDistance(p1, p2) ==
    Sqrt((p2.x - p1.x) * (p2.x - p1.x) + (p2.y - p1.y) * (p2.y - p1.y))

RECURSIVE calculatePathLength(_)
calculatePathLength(points) ==
    IF Len(points) < 2 THEN 0
    ELSE calculateDistance(points[1], points[2]) + calculatePathLength(Tail(points))

RECURSIVE ShoelaceSum(_, _)
ShoelaceSum(points, i) ==
    IF i > Len(points) THEN 0
    ELSE LET p1 == points[i]
             p2 == points[(i % Len(points)) + 1]
         IN  (p1.x * p2.y) - (p2.x * p1.y) + ShoelaceSum(points, i + 1)

\* Twice the signed shoelace area: calculatePolygonArea without Math.abs.
calculatePolygonArea2Signed(points) == ShoelaceSum(points, 1)

\* Twice the polygon area; Math.abs(area / 2) is half of it.
calculatePolygonArea2(points) == Abs(ShoelaceSum(points, 1))

\* ------------------------------------------------------------------ state

VARIABLES
    now,                \* Date.now()
    selectedFile,       \* NULL or the selected file
    fileType,           \* "none" (null), "image" or "pdf"
    pdfDoc,             \* NULL or the loaded PDF document
    pageNum,
    numPages,
    isPdfRendering,
    planDimensions,     \* natural size of the page or image shown
    zoomLevel,
    panOffset,
    isDragging,
    dragStart,
    isAnalyzing,
    retry,              \* the retryOperation call in progress, or the last one
    items,
    activeTool,
    annotations,
    currentAnnotation,
    scaleRatio,
    tasks,              \* asynchronous loads and renders in flight
    renderTaskRef,      \* part_004: the render task that can be cancelled
    canvas              \* the PDF canvas: its size and the page painted on it

docVars == <<selectedFile, fileType, pdfDoc, pageNum, numPages>>
viewVars == <<zoomLevel, panOffset, isDragging, dragStart>>
annVars == <<items, activeTool, annotations, currentAnnotation, scaleRatio>>
renderVars == <<isPdfRendering, planDimensions, tasks, renderTaskRef, canvas>>
vars == <<now, docVars, viewVars, annVars, renderVars, isAnalyzing, retry>>

\* ------------------------------------------------------------------ rationals

RatLess(a, b) == a.num * b.den < b.num * a.den
RatMin(a, b) == IF RatLess(b, a) THEN b ELSE a
RatMax(a, b) == IF RatLess(a, b) THEN b ELSE a
RatAdd(a, b) == Ratio(a.num * b.den + b.num * a.den, a.den * b.den)
RatSub(a, b) == Ratio(a.num * b.den - b.num * a.den, a.den * b.den)
RatMul(a, b) == Ratio(a.num * b.num, a.den * b.den)
RatDiv(a, b) == Ratio(a.num * b.den, a.den * b.num)
One == Ratio(1, 1)
Origin == [x |-> Zero, y |-> Zero]

\* ------------------------------------------------------------------ documents

\* useState<string>('ft'); the setter is never called.
scaleUnit == "ft"

\* page.getViewport({scale: 2.0}) of page p: pages differ in size.
PageViewport(p) == [width |-> 1000 + 200 * p, height |-> 1600]
\* img.width, img.height of an image file: a file over 20 MB is a large
\* scan, the others a small picture.
ImageSize == [width |-> 400, height |-> 300]
LargeImageSize == [width |-> 24000, height |-> 18000]
ImageSizeOf(file) == IF file.big THEN LargeImageSize ELSE ImageSize
NoDimensions == [width |-> 0, height |-> 0]

\* wrapperRef.current.clientWidth / clientHeight.
ContainerW == 1060
ContainerH == 860

\* ------------------------------------------------------------------ tasks

\* An asynchronous operation in flight.
\*   kind "load"   : loadPdf, awaiting the document
\*   kind "render" : renderPdfPage of page; phase "getPage" awaits pdf.getPage,
\*                   "rendering" awaits renderTask.promise, "cancelled" is a
\*                   render whose cancel() was called and whose promise has
\*                   yet to reject
\*   kind "image"  : the Image whose onload is awaited
\*   kind "fit"    : the setTimeout that calls fitToScreen(dims)
\*   kind "renderTimer" : part_004's setTimeout that calls renderPdfPage(pdf, 1)
\*   kind "analysis" : runAnalysis, awaiting the analysis result
\*   kind "analyzed" : the setTimeout that clears isAnalyzing
\* zoomSeen is the zoomLevel of the closure the operation runs in; byLoad
\* tells that loadPdf awaits the render.
Task(id, kind, page, phase, zoomSeen, byLoad, dims) ==
    [id |-> id, kind |-> kind, page |-> page, phase |-> phase,
     zoomSeen |-> zoomSeen, byLoad |-> byLoad, dims |-> dims]

TaskIds == 1..MaxTasks
FreeIds(ts) == TaskIds \ {t.id : t \in ts}
NewId(ts) == CHOOSE i \in FreeIds(ts) : \A j \in FreeIds(ts) : i <= j

\* renderTaskRef.current: 0 is null, Stale a task that has settled.
Stale == 0 - 1

\* ------------------------------------------------------------------ items

ManualId(t) == <<"manual", t>>
AiItemId(t, idx) == <<"ai-item", t, idx>>
TemplateItemId(idx) == <<"tmpl-item", idx>>

\* A line item; quantity is in hundredths, unitCost and totalCost are 0.
Item(id, description, quantity, unit, category, notes) ==
    [id |-> id, description |-> description, quantity |-> quantity,
     unit |-> unit, category |-> category, notes |-> notes]

\* The items the mount effect of part_004 loads for a project made from a
\* template with one common item; src/pages/Takeoff.tsx starts empty.
TemplateItems ==
    << Item(TemplateItemId(0), "5/8 Drywall Type X", 0, "ea",
            "01 - General Requirements", <<"From Project Template">>) >>
InitialItems(rev) == IF rev = "part_004" THEN {<<>>, TemplateItems} ELSE {<<>>}

\* One item of an analyzePlan result, as runAnalysis maps it.
AiItem(t, idx) ==
    Item(AiItemId(t, idx), "Interior Partition Wall", 1200, "lf", "09 - Finishes", <<"Low">>)

Annotation(id, type, points, completed, page) ==
    [id |-> id, type |-> type, points |-> points, completed |-> completed, page |-> page]

\* addItemFromAnnotation with a linear quantity left in pixels.
addItemFromAnnotationUnscaled(annot, ratio) ==
    LET pxLen   == calculatePathLength(annot.points)
        pxArea2 == calculatePolygonArea2(annot.points)
        qty  == CASE annot.type = "count" -> 100
                  [] annot.type = "linear" ->
                        IF IsPositive(ratio) THEN ToFixed2(pxLen, 1)
                        ELSE ToFixed2(pxLen, 1)
                  [] annot.type = "area" ->
                        IF IsPositive(ratio)
                        THEN ToFixed2(pxArea2 * ratio.den * ratio.den, 2 * ratio.num * ratio.num)
                        ELSE ToFixed2(pxArea2, 2)
                  [] OTHER -> 0
        unit == CASE annot.type = "linear" -> IF IsPositive(ratio) THEN <<scaleUnit>> ELSE <<"px">>
                  [] annot.type = "area" ->
                        IF IsPositive(ratio) THEN <<"sq", scaleUnit>> ELSE <<"sq", "px">>
                  [] OTHER -> <<"ea">>
        desc == CASE annot.type = "count" -> "Manual Count"
                  [] annot.type = "linear" -> "Linear Measurement"
                  [] annot.type = "area" -> "Area Measurement"
                  [] OTHER -> "Manual Item"
    IN  Item(annot.id, desc, qty, unit, "Manual Takeoff", <<"Page", annot.page>>)

\* The item addItemFromAnnotation appends for annot under calibration ratio.
addItemFromAnnotation(annot, ratio) ==
    LET pxLen   == calculatePathLength(annot.points)
        pxArea2 == calculatePolygonArea2(annot.points)
        qty  == CASE annot.type = "count" -> 100
                  [] annot.type = "linear" ->
                        IF IsPositive(ratio) THEN ToFixed2(pxLen * ratio.den, ratio.num)
                        ELSE ToFixed2(pxLen, 1)
                  [] annot.type = "area" ->
                        IF IsPositive(ratio)
                        THEN ToFixed2(pxArea2 * ratio.den * ratio.den, 2 * ratio.num * ratio.num)
                        ELSE ToFixed2(pxArea2, 2)
                  [] OTHER -> 0
        unit == CASE annot.type = "linear" -> IF IsPositive(ratio) THEN <<scaleUnit>> ELSE <<"px">>
                  [] annot.type = "area" ->
                        IF IsPositive(ratio) THEN <<"sq", scaleUnit>> ELSE <<"sq", "px">>
                  [] OTHER -> <<"ea">>
        desc == CASE annot.type = "count" -> "Manual Count"
                  [] annot.type = "linear" -> "Linear Measurement"
                  [] annot.type = "area" -> "Area Measurement"
                  [] OTHER -> "Manual Item"
    IN  Item(annot.id, desc, qty, unit, "Manual Takeoff", <<"Page", annot.page>>)

\* The scaleRatio finishCalibration leaves, given the one before.
finishCalibration(annot, knownDist, ratio) ==
    LET pxDist == calculatePathLength(annot.points)
    IN  IF pxDist = 0 THEN ratio ELSE Ratio(pxDist, knownDist)

\* prev.filter(i => i.id !== id)
RECURSIVE FilterOutId(_, _)
FilterOutId(seq, id) ==
    IF seq = <<>> THEN <<>>
    ELSE IF Head(seq).id = id THEN FilterOutId(Tail(seq), id)
         ELSE <<Head(seq)>> \o FilterOutId(Tail(seq), id)

\* ------------------------------------------------------------------ retry

\* error.message texts, as sequences of characters.
MsgUnavailable == <<"5", "0", "3", " ", "U", "N", "A", "V", "A", "I", "L", "A", "B", "L", "E">>
MsgTimeout == <<"t", "i", "m", "e", "o", "u", "t">>
MsgTimeoutCapital == <<"T", "i", "m", "e", "o", "u", "t">>
MsgOverloaded == <<"O", "v", "e", "r", "l", "o", "a", "d", "e", "d">>
MsgBad == <<"b", "a", "d">>

\* What operation() can reject with: status and code are NULL when the
\* error has none, message is empty when it has none.
RetryError(status, code, message) == [status |-> status, code |-> code, message |-> message]
Errors ==
    { RetryError(Some(503), NULL, <<>>), RetryError(Some(504), NULL, <<>>),
      RetryError(NULL, Some(503), <<>>), RetryError(NULL, Some(504), <<>>),
      RetryError(NULL, NULL, MsgUnavailable), RetryError(NULL, NULL, MsgTimeout),
      RetryError(NULL, NULL, MsgTimeoutCapital), RetryError(NULL, NULL, MsgOverloaded),
      RetryError(Some(400), NULL, MsgBad), RetryError(NULL, NULL, <<>>) }

\* String.prototype.includes
includes(s, part) ==
    \E k \in 0..(Len(s) - Len(part)) : SubSeq(s, k + 1, k + Len(part)) = part

\* isRetryable true for every error.
isRetryableAlways(error) == TRUE

isRetryable(error) ==
    \/ error.status = Some(503)
    \/ error.status = Some(504)
    \/ error.code = Some(503)
    \/ /\ error.message # <<>>
       /\ \/ includes(error.message, SubSeq(MsgUnavailable, 5, 15))
          \/ includes(error.message, MsgTimeout)
          \/ includes(error.message, MsgOverloaded)

\* A retryOperation call: status is "idle" before any call, "calling" while
\* operation() is awaited, "waiting" during the backoff timer, "returned"
\* or "thrown" once settled; i is the loop counter, calls the number of
\* invocations of operation, failures their errors, waits the delays of the
\* backoff timers set, error what was thrown (NULL is undefined).
RetryState(status, maxRetries, initialDelay, i, calls, failures, waits, lastError, result, error) ==
    [status |-> status, maxRetries |-> maxRetries, initialDelay |-> initialDelay, i |-> i,
     calls |-> calls, failures |-> failures, waits |-> waits, lastError |-> lastError,
     result |-> result, error |-> error]
NoRetry == RetryState("idle", 0, 0, 0, 0, <<>>, <<>>, NULL, NULL, NULL)

\* ------------------------------------------------------------------ rendering

\* The synchronous part of renderPdfPage(pdf, page) up to its first await,
\* applied to the tasks ts and the task reference ref: part_004 first calls
\* cancel() on the referenced task; then a render awaiting getPage is added.
CancelPending(ts, ref) ==
    {IF t.id = ref /\ t.kind = "render" /\ t.phase = "rendering"
     THEN [t EXCEPT !.phase = "cancelled"] ELSE t : t \in ts}

StartRender(rev, ts, ref, page, zoomSeen, byLoad) ==
    LET kept == IF rev = "part_004" /\ ref # 0 THEN CancelPending(ts, ref) ELSE ts
    IN  kept \cup {Task(NewId(kept), "render", page, "getPage", zoomSeen, byLoad,
                        PageViewport(page))}

\* ------------------------------------------------------------------ Init

Init(rev) ==
    /\ now = 0
    /\ selectedFile = NULL
    /\ fileType = "none"
    /\ pdfDoc = NULL
    /\ pageNum = 1
    /\ numPages = 0
    /\ isPdfRendering = FALSE
    /\ planDimensions = NoDimensions
    /\ zoomLevel = One
    /\ panOffset = Origin
    /\ isDragging = FALSE
    /\ dragStart = Origin
    /\ isAnalyzing = FALSE
    /\ retry = NoRetry
    /\ items \in InitialItems(rev)
    /\ activeTool = "select"
    /\ annotations = <<>>
    /\ currentAnnotation = NULL
    /\ scaleRatio = Zero
    /\ tasks = {}
    /\ renderTaskRef = 0
    /\ canvas = [width |-> 300, height |-> 150, page |-> 0]

\* ------------------------------------------------------------------ handlers

\* Time passes.
Tick ==
    /\ now < MaxClock
    /\ now' = now + 1
    /\ UNCHANGED <<docVars, viewVars, annVars, renderVars, isAnalyzing, retry>>

\* A ToolButton of the palette is clicked.
SelectTool(tool) ==
    /\ activeTool' = tool
    /\ UNCHANGED <<now, docVars, viewVars, renderVars, isAnalyzing, retry,
                   items, annotations, currentAnnotation, scaleRatio>>

\* e.clientX, e.clientY of a pointer event over the document point p: the
\* transform layer shows the document translated by panOffset and scaled
\* by zoomLevel, the canvas container being at the client origin.
ClientOf(p) ==
    [x |-> RatAdd(panOffset.x, RatMul(zoomLevel, Ratio(p.x, 1))),
     y |-> RatAdd(panOffset.y, RatMul(zoomLevel, Ratio(p.y, 1)))]

\* containerRef.current.getBoundingClientRect() of the transform layer.
BoundingClientRect == [left |-> panOffset.x, top |-> panOffset.y]

\* getPointFromEvent without the offset of the transform layer: the client
\* position divided by the zoom level.
getPointFromEventNoRect(e) ==
    LET x == RatDiv(e.x, zoomLevel)
        y == RatDiv(e.y, zoomLevel)
    IN  [x |-> x.num \div x.den, y |-> y.num \div y.den]

\* The document point of the pointer event at client position e.  The
\* clicks of the model land on whole document coordinates.
getPointFromEvent(e) ==
    LET rect    == BoundingClientRect
        clientX == RatSub(e.x, rect.left)
        clientY == RatSub(e.y, rect.top)
        x       == RatDiv(clientX, zoomLevel)
        y       == RatDiv(clientY, zoomLevel)
    IN  [x |-> x.num \div x.den, y |-> y.num \div y.den]

handleCanvasMouseDown(p, button) ==
    /\ UNCHANGED <<now, docVars, renderVars, isAnalyzing, retry, zoomLevel, panOffset,
                   activeTool, scaleRatio>>
    /\ IF selectedFile = NULL
       THEN UNCHANGED <<isDragging, dragStart, items, annotations, currentAnnotation>>
       ELSE IF activeTool = "pan" \/ (activeTool = "select" /\ button = 1)
       THEN /\ isDragging' = TRUE
            /\ dragStart' = [x |-> RatSub(ClientOf(p).x, panOffset.x),
                             y |-> RatSub(ClientOf(p).y, panOffset.y)]
            /\ UNCHANGED <<items, annotations, currentAnnotation>>
       ELSE IF activeTool = "count"
       THEN LET point    == getPointFromEvent(ClientOf(p))
                newAnnot == Annotation(ManualId(now), "count", <<point>>, TRUE, pageNum)
            IN  /\ Len(items) < MaxItems
                /\ annotations' = Append(annotations, newAnnot)
                /\ items' = Append(items, addItemFromAnnotation(newAnnot, scaleRatio))
                /\ UNCHANGED <<isDragging, dragStart, currentAnnotation>>
       ELSE IF activeTool \in DrawingTools
       THEN /\ IF currentAnnotation = NULL
               THEN currentAnnotation' =
                        Some(Annotation(ManualId(now), activeTool,
                                        <<getPointFromEvent(ClientOf(p))>>, FALSE, pageNum))
               ELSE /\ Len(Val(currentAnnotation).points) < MaxPoints
                    /\ currentAnnotation' =
                        Some([Val(currentAnnotation) EXCEPT
                                 !.points = Append(@, getPointFromEvent(ClientOf(p)))])
            /\ UNCHANGED <<isDragging, dragStart, items, annotations>>
       ELSE UNCHANGED <<isDragging, dragStart, items, annotations, currentAnnotation>>

\* handleCanvasMouseMove that also drops the annotation in progress when it
\* pans.
handleCanvasMouseMoveDropsDrawing(c) ==
    /\ panOffset' = IF isDragging
                    THEN [x |-> RatSub(c.x, dragStart.x), y |-> RatSub(c.y, dragStart.y)]
                    ELSE panOffset
    /\ currentAnnotation' = IF isDragging THEN NULL ELSE currentAnnotation
    /\ UNCHANGED <<now, docVars, zoomLevel, isDragging, dragStart, items, activeTool,
                   annotations, scaleRatio, renderVars, isAnalyzing, retry>>

\* handleCanvasMouseMove without the isDragging test.
handleCanvasMouseMoveAlwaysPans(c) ==
    /\ panOffset' = [x |-> RatSub(c.x, dragStart.x), y |-> RatSub(c.y, dragStart.y)]
    /\ UNCHANGED <<now, docVars, zoomLevel, isDragging, dragStart, annVars,
                   renderVars, isAnalyzing, retry>>

\* Client positions of a pointer move.
MoveClients == {[x |-> Ratio(100, 1), y |-> Ratio(100, 1)],
                [x |-> Ratio(250, 1), y |-> Ratio(180, 1)]}

\* The pointer moves to client position c.
handleCanvasMouseMove(c) ==
    /\ panOffset' = IF isDragging
                    THEN [x |-> RatSub(c.x, dragStart.x), y |-> RatSub(c.y, dragStart.y)]
                    ELSE panOffset
    /\ UNCHANGED <<now, docVars, zoomLevel, isDragging, dragStart, annVars,
                   renderVars, isAnalyzing, retry>>

\* The pointer is released over the canvas container, or leaves it.
handleCanvasMouseUp ==
    /\ isDragging' = FALSE
    /\ UNCHANGED <<now, docVars, zoomLevel, panOffset, dragStart, annVars,
                   renderVars, isAnalyzing, retry>>

\* handleCanvasDoubleClick without the setActiveTool('select') that ends a
\* scale finish.
handleCanvasDoubleClickKeepsTool(dist) ==
    /\ UNCHANGED <<now, docVars, viewVars, renderVars, isAnalyzing, retry>>
    /\ IF currentAnnotation # NULL /\ ~Val(currentAnnotation).completed
       THEN IF activeTool = "scale"
            THEN IF Len(Val(currentAnnotation).points) < 2
                 THEN UNCHANGED annVars
                 ELSE /\ scaleRatio' =
                            IF IsNumericInput(dist)
                            THEN finishCalibration(Val(currentAnnotation),
                                                   Val(parseFloat(Val(dist))), scaleRatio)
                            ELSE scaleRatio
                      /\ currentAnnotation' = NULL
                      /\ UNCHANGED <<activeTool, items, annotations>>
            ELSE LET finalAnnot == [Val(currentAnnotation) EXCEPT !.completed = TRUE]
                 IN  /\ Len(items) < MaxItems
                     /\ annotations' = Append(annotations, finalAnnot)
                     /\ items' = Append(items, addItemFromAnnotation(finalAnnot, scaleRatio))
                     /\ currentAnnotation' = NULL
                     /\ UNCHANGED <<activeTool, scaleRatio>>
       ELSE UNCHANGED annVars

\* handleCanvasDoubleClick with a scale finish that also converts the
\* pixel-fallback items to the new calibration.
handleCanvasDoubleClickRescales(dist) ==
    /\ UNCHANGED <<now, docVars, viewVars, renderVars, isAnalyzing, retry>>
    /\ IF currentAnnotation # NULL /\ ~Val(currentAnnotation).completed
       THEN IF activeTool = "scale"
            THEN IF Len(Val(currentAnnotation).points) < 2
                 THEN UNCHANGED annVars
                 ELSE /\ scaleRatio' =
                            IF IsNumericInput(dist)
                            THEN finishCalibration(Val(currentAnnotation),
                                                   Val(parseFloat(Val(dist))), scaleRatio)
                            ELSE scaleRatio
                      /\ currentAnnotation' = NULL
                      /\ activeTool' = "select"
                      /\ items' = [i \in 1..Len(items) |->
                                     IF items[i].unit = <<"px">> /\ IsPositive(scaleRatio')
                                     THEN [items[i] EXCEPT
                                             !.unit = <<scaleUnit>>,
                                             !.quantity = ToFixed2(@ * scaleRatio'.den,
                                                                   100 * scaleRatio'.num)]
                                     ELSE items[i]]
                      /\ UNCHANGED annotations
            ELSE LET finalAnnot == [Val(currentAnnotation) EXCEPT !.completed = TRUE]
                 IN  /\ Len(items) < MaxItems
                     /\ annotations' = Append(annotations, finalAnnot)
                     /\ items' = Append(items, addItemFromAnnotation(finalAnnot, scaleRatio))
                     /\ currentAnnotation' = NULL
                     /\ UNCHANGED <<activeTool, scaleRatio>>
       ELSE UNCHANGED annVars

\* dist is what prompt() returns if the handler asks.
handleCanvasDoubleClick(dist) ==
    /\ UNCHANGED <<now, docVars, viewVars, renderVars, isAnalyzing, retry>>
    /\ IF currentAnnotation # NULL /\ ~Val(currentAnnotation).completed
       THEN IF activeTool = "scale"
            THEN IF Len(Val(currentAnnotation).points) < 2
                 THEN UNCHANGED annVars
                 ELSE /\ scaleRatio' =
                            IF IsNumericInput(dist)
                            THEN finishCalibration(Val(currentAnnotation),
                                                   Val(parseFloat(Val(dist))), scaleRatio)
                            ELSE scaleRatio
                      /\ currentAnnotation' = NULL
                      /\ activeTool' = "select"
                      /\ UNCHANGED <<items, annotations>>
            ELSE LET finalAnnot == [Val(currentAnnotation) EXCEPT !.completed = TRUE]
                 IN  /\ Len(items) < MaxItems
                     /\ annotations' = Append(annotations, finalAnnot)
                     /\ items' = Append(items, addItemFromAnnotation(finalAnnot, scaleRatio))
                     /\ currentAnnotation' = NULL
                     /\ UNCHANGED <<activeTool, scaleRatio>>
       ELSE UNCHANGED annVars

\* deleteItem without the setAnnotations call.
deleteItemKeepsAnnotations(id) ==
    /\ items' = FilterOutId(items, id)
    /\ UNCHANGED <<now, docVars, viewVars, renderVars, isAnalyzing, retry,
                   activeTool, annotations, currentAnnotation, scaleRatio>>

deleteItem(id) ==
    /\ items' = FilterOutId(items, id)
    /\ annotations' = FilterOutId(annotations, id)
    /\ UNCHANGED <<now, docVars, viewVars, renderVars, isAnalyzing, retry,
                   activeTool, currentAnnotation, scaleRatio>>

\* The ids a delete can name: those of the items shown, and one that no
\* item or annotation has.
DeletableIds == {items[i].id : i \in 1..Len(items)} \cup {ManualId(MaxClock + 1)}

\* The PDF document pdfjs.getDocument resolves to.
PdfDocument == [numPages |-> PdfPages]

\* handleFileChange without the setScaleRatio(0) call.
handleFileChangeKeepsScale(rev, file, confirmed) ==
    /\ UNCHANGED <<now, isAnalyzing, retry>>
    /\ IF file.big /\ ~confirmed
       THEN UNCHANGED <<docVars, viewVars, annVars, renderVars>>
       ELSE LET isPdf   == file.type = "application/pdf"
                isImage == file.type \in {"image/png"}
                newType == IF isPdf THEN "pdf" ELSE IF isImage THEN "image" ELSE fileType
                newDoc  == IF isImage THEN NULL ELSE pdfDoc
                \* loadPdf up to its first await
                loading == IF isPdf
                           THEN tasks \cup {Task(NewId(tasks), "load", 0, "loading",
                                                 zoomLevel, FALSE, NoDimensions)}
                           ELSE IF isImage
                           THEN tasks \cup {Task(NewId(tasks), "image", 0, "loading",
                                                 zoomLevel, FALSE, ImageSizeOf(file))}
                           ELSE tasks
                \* useEffect([pageNum, pdfDoc]) after the commit
                effect  == (pageNum # 1 \/ newDoc # pdfDoc) /\ newType = "pdf" /\ newDoc # NULL
                needed  == (IF isPdf \/ isImage THEN 1 ELSE 0) + (IF effect THEN 1 ELSE 0)
            IN  /\ Cardinality(tasks) + needed <= MaxTasks
                /\ selectedFile' = Some(file)
                /\ items' = IF rev = "pages" THEN <<>> ELSE items
                /\ annotations' = <<>>
                /\ zoomLevel' = One
                /\ panOffset' = Origin
                /\ scaleRatio' = scaleRatio
                /\ pageNum' = 1
                /\ fileType' = newType
                /\ pdfDoc' = newDoc
                /\ tasks' = IF effect
                            THEN StartRender(rev, loading, renderTaskRef, 1, One, FALSE)
                            ELSE loading
                /\ isPdfRendering' = IF isPdf \/ effect THEN TRUE ELSE isPdfRendering
                /\ UNCHANGED <<numPages, isDragging, dragStart, activeTool, currentAnnotation,
                               planDimensions, renderTaskRef, canvas>>

\* The file input changes to file; confirmed is the answer to the confirm()
\* dialog shown for a file over 20 MB.
handleFileChange(rev, file, confirmed) ==
    /\ UNCHANGED <<now, isAnalyzing, retry>>
    /\ IF file.big /\ ~confirmed
       THEN UNCHANGED <<docVars, viewVars, annVars, renderVars>>
       ELSE LET isPdf   == file.type = "application/pdf"
                isImage == file.type \in {"image/png"}
                newType == IF isPdf THEN "pdf" ELSE IF isImage THEN "image" ELSE fileType
                newDoc  == IF isImage THEN NULL ELSE pdfDoc
                \* loadPdf up to its first await
                loading == IF isPdf
                           THEN tasks \cup {Task(NewId(tasks), "load", 0, "loading",
                                                 zoomLevel, FALSE, NoDimensions)}
                           ELSE IF isImage
                           THEN tasks \cup {Task(NewId(tasks), "image", 0, "loading",
                                                 zoomLevel, FALSE, ImageSizeOf(file))}
                           ELSE tasks
                \* useEffect([pageNum, pdfDoc]) after the commit
                effect  == (pageNum # 1 \/ newDoc # pdfDoc) /\ newType = "pdf" /\ newDoc # NULL
                needed  == (IF isPdf \/ isImage THEN 1 ELSE 0) + (IF effect THEN 1 ELSE 0)
            IN  /\ Cardinality(tasks) + needed <= MaxTasks
                /\ selectedFile' = Some(file)
                /\ items' = IF rev = "pages" THEN <<>> ELSE items
                /\ annotations' = <<>>
                /\ zoomLevel' = One
                /\ panOffset' = Origin
                /\ scaleRatio' = Zero
                /\ pageNum' = 1
                /\ fileType' = newType
                /\ pdfDoc' = newDoc
                /\ tasks' = IF effect
                            THEN StartRender(rev, loading, renderTaskRef, 1, One, FALSE)
                            ELSE loading
                /\ isPdfRendering' = IF isPdf \/ effect THEN TRUE ELSE isPdfRendering
                /\ UNCHANGED <<numPages, isDragging, dragStart, activeTool, currentAnnotation,
                               planDimensions, renderTaskRef, canvas>>

\* changePage without the clamp to [1, numPages].
changePageUnclamped(rev, delta) ==
    LET newPage == pageNum + delta
        effect  == newPage # pageNum /\ fileType = "pdf" /\ pdfDoc # NULL
    IN  /\ effect => Cardinality(tasks) < MaxTasks
        /\ pageNum' = newPage
        /\ tasks' = IF effect
                    THEN StartRender(rev, tasks, renderTaskRef, newPage, zoomLevel, FALSE)
                    ELSE tasks
        /\ isPdfRendering' = IF effect THEN TRUE ELSE isPdfRendering
        /\ UNCHANGED <<now, selectedFile, fileType, pdfDoc, numPages, viewVars,
                       annVars, planDimensions, renderTaskRef, canvas, isAnalyzing, retry>>

changePage(rev, delta) ==
    LET newPage == Max(1, Min(numPages, pageNum + delta))
        effect  == newPage # pageNum /\ fileType = "pdf" /\ pdfDoc # NULL
    IN  /\ effect => Cardinality(tasks) < MaxTasks
        /\ pageNum' = newPage
        /\ tasks' = IF effect
                    THEN StartRender(rev, tasks, renderTaskRef, newPage, zoomLevel, FALSE)
                    ELSE tasks
        /\ isPdfRendering' = IF effect THEN TRUE ELSE isPdfRendering
        /\ UNCHANGED <<now, selectedFile, fileType, pdfDoc, numPages, viewVars,
                       annVars, planDimensions, renderTaskRef, canvas, isAnalyzing, retry>>

\* runAnalysis up to its first await.
runAnalysis ==
    /\ IF selectedFile = NULL
       THEN UNCHANGED <<isAnalyzing, retry, tasks>>
       ELSE /\ Cardinality(tasks) < MaxTasks
            /\ isAnalyzing' = TRUE
            /\ tasks' = tasks \cup {Task(NewId(tasks), "analysis", 0, "awaiting", One,
                                         FALSE, NoDimensions)}
    /\ UNCHANGED <<now, docVars, viewVars, annVars, isPdfRendering, planDimensions,
                   renderTaskRef, canvas, retry>>

\* The n items of an analyzePlan result, as runAnalysis maps them.
RECURSIVE MappedItems(_, _)
MappedItems(n, idx) ==
    IF idx >= n THEN <<>> ELSE <<AiItem(now, idx)>> \o MappedItems(n, idx + 1)

\* runAnalysis: analyzePlan resolves with n items, which are mapped and
\* appended; isAnalyzing is cleared by a timer.
AnalysisResolved(t, n) ==
    /\ t \in tasks /\ t.kind = "analysis"
    /\ Len(items) + n <= MaxItems
    /\ items' = items \o MappedItems(n, 0)
    /\ tasks' = (tasks \ {t}) \cup {[t EXCEPT !.kind = "analyzed", !.phase = "timer"]}
    /\ UNCHANGED <<now, docVars, viewVars, isAnalyzing, retry, isPdfRendering, planDimensions,
                   renderTaskRef, canvas, activeTool, annotations, currentAnnotation,
                   scaleRatio>>

\* runAnalysis: ensureApiKey, fileToBase64 or analyzePlan rejects.
AnalysisRejected(t) ==
    /\ t \in tasks /\ t.kind = "analysis"
    /\ isAnalyzing' = FALSE
    /\ tasks' = tasks \ {t}
    /\ UNCHANGED <<now, docVars, viewVars, annVars, isPdfRendering, planDimensions,
                   renderTaskRef, canvas, retry>>

\* The setTimeout(() => setIsAnalyzing(false), 800) of a finished analysis fires.
AnalysisTimer(t) ==
    /\ t \in tasks /\ t.kind = "analyzed"
    /\ isAnalyzing' = FALSE
    /\ tasks' = tasks \ {t}
    /\ UNCHANGED <<now, docVars, viewVars, annVars, isPdfRendering, planDimensions,
                   renderTaskRef, canvas, retry>>

\* ------------------------------------------------------------------ view

\* fitToScreen(w, h): the zoom level and pan offset it sets.
fitToScreen(w, h) ==
    LET pad      == 60
        scaleW   == Ratio(ContainerW - pad, w)
        scaleH   == Ratio(ContainerH - pad, h)
        newScale == RatMin(scaleW, scaleH)
        finalW   == RatMul(Ratio(w, 1), newScale)
        finalH   == RatMul(Ratio(h, 1), newScale)
    IN  [zoomLevel |-> RatMax(Ratio(5, 100), RatMin(newScale, Ratio(15, 10))),
         panOffset |-> [x |-> RatMul(RatSub(Ratio(ContainerW, 1), finalW), Ratio(1, 2)),
                        y |-> RatMul(RatSub(Ratio(ContainerH, 1), finalH), Ratio(1, 2))]]

\* The Zoom Out button.
ZoomOut ==
    /\ zoomLevel' = RatMax(Ratio(1, 10), RatSub(zoomLevel, Ratio(1, 10)))
    /\ UNCHANGED <<now, docVars, panOffset, isDragging, dragStart, annVars, renderVars,
                   isAnalyzing, retry>>

\* The Zoom In button without the Math.min(5, ...).
ZoomInUnclamped ==
    /\ zoomLevel' = RatAdd(zoomLevel, Ratio(1, 10))
    /\ UNCHANGED <<now, docVars, panOffset, isDragging, dragStart, annVars, renderVars,
                   isAnalyzing, retry>>

\* The Zoom In button.
ZoomIn ==
    /\ zoomLevel' = RatMin(Ratio(5, 1), RatAdd(zoomLevel, Ratio(1, 10)))
    /\ UNCHANGED <<now, docVars, panOffset, isDragging, dragStart, annVars, renderVars,
                   isAnalyzing, retry>>

\* The Fit to Screen button: fitToScreen(planDimensions.width, planDimensions.height).
FitButton ==
    /\ zoomLevel' = fitToScreen(planDimensions.width, planDimensions.height).zoomLevel
    /\ panOffset' = fitToScreen(planDimensions.width, planDimensions.height).panOffset
    /\ UNCHANGED <<now, docVars, isDragging, dragStart, annVars, renderVars, isAnalyzing, retry>>

\* ------------------------------------------------------------------ continuations


\* The <canvas> is mounted: selectedFile && isPdf.
CanvasMounted == selectedFile # NULL /\ fileType = "pdf"

\* renderTaskRef.current once task t has settled without the ref being cleared.
RefAfterSettle(t) == IF renderTaskRef = t.id THEN Stale ELSE renderTaskRef

\* loadPdf: the document has loaded.
LoadPdfDone(rev, t) ==
    LET rest    == tasks \ {t}
        effect  == fileType = "pdf"
        \* pages awaits renderPdfPage(pdf, 1); part_004 sets a timer for it
        started == IF rev = "pages"
                   THEN StartRender(rev, rest, renderTaskRef, 1, t.zoomSeen, TRUE)
                   ELSE rest \cup {Task(NewId(rest), "renderTimer", 1, "timer",
                                        t.zoomSeen, FALSE, NoDimensions)}
    IN  /\ t \in tasks /\ t.kind = "load"
        /\ Cardinality(rest) + 1 + (IF effect THEN 1 ELSE 0) <= MaxTasks
        /\ pdfDoc' = Some(PdfDocument)
        /\ numPages' = PdfDocument.numPages
        /\ tasks' = IF effect
                    THEN StartRender(rev, started, renderTaskRef, pageNum, zoomLevel, FALSE)
                    ELSE started
        /\ isPdfRendering' = IF rev = "pages" \/ effect THEN TRUE ELSE isPdfRendering
        /\ UNCHANGED <<now, selectedFile, fileType, pageNum, viewVars, annVars,
                       planDimensions, renderTaskRef, canvas, isAnalyzing, retry>>

\* part_004: the setTimeout(() => renderPdfPage(pdf, 1), 0) of loadPdf fires.
RenderTimer(t) ==
    /\ t \in tasks /\ t.kind = "renderTimer"
    /\ tasks' = StartRender("part_004", tasks \ {t}, renderTaskRef, 1, t.zoomSeen, FALSE)
    /\ isPdfRendering' = TRUE
    /\ UNCHANGED <<now, docVars, viewVars, annVars, planDimensions,
                   renderTaskRef, canvas, isAnalyzing, retry>>

\* loadPdf: file.arrayBuffer() or getDocument rejects.
LoadPdfFailed(t) ==
    /\ t \in tasks /\ t.kind = "load"
    /\ tasks' = tasks \ {t}
    /\ isPdfRendering' = FALSE
    /\ UNCHANGED <<now, docVars, viewVars, annVars, planDimensions,
                   renderTaskRef, canvas, isAnalyzing, retry>>

\* renderPdfPage: pdf.getPage has resolved; the canvas is sized and
\* page.render started, or, without a canvas, the function returns.
RenderGotPage(rev, t) ==
    /\ t \in tasks /\ t.kind = "render" /\ t.phase = "getPage"
    /\ IF CanvasMounted
       THEN /\ canvas' = [width |-> t.dims.width, height |-> t.dims.height, page |-> 0]
            /\ tasks' = (tasks \ {t}) \cup {[t EXCEPT !.phase = "rendering"]}
            /\ renderTaskRef' = IF rev = "part_004" THEN t.id ELSE renderTaskRef
            /\ UNCHANGED isPdfRendering
       ELSE /\ tasks' = tasks \ {t}
            /\ isPdfRendering' = IF rev = "pages" THEN FALSE ELSE isPdfRendering
            /\ UNCHANGED <<canvas, renderTaskRef>>
    /\ UNCHANGED <<now, docVars, viewVars, annVars, planDimensions, isAnalyzing, retry>>

\* renderPdfPage: the render task has finished painting.
RenderDone(rev, t) ==
    LET rest == tasks \ {t}
    IN  /\ t \in tasks /\ t.kind = "render" /\ t.phase = "rendering"
        /\ renderTaskRef' = IF rev = "part_004" THEN 0 ELSE renderTaskRef
        /\ planDimensions' = t.dims
        /\ canvas' = [canvas EXCEPT !.page = t.page]
        /\ tasks' = IF t.zoomSeen = One
                    THEN rest \cup {Task(NewId(rest), "fit", t.page, "timer", t.zoomSeen,
                                         FALSE, t.dims)}
                    ELSE rest
        /\ isPdfRendering' = FALSE
        /\ UNCHANGED <<now, docVars, viewVars, annVars, isAnalyzing, retry>>

\* renderPdfPage: the promise of a cancelled render task rejects with
\* RenderingCancelledException (part_004 returns without touching state).
RenderCancelled(t) ==
    /\ t \in tasks /\ t.kind = "render" /\ t.phase = "cancelled"
    /\ tasks' = tasks \ {t}
    /\ renderTaskRef' = RefAfterSettle(t)
    /\ UNCHANGED <<now, docVars, viewVars, annVars, isPdfRendering,
                   planDimensions, canvas, isAnalyzing, retry>>

\* renderPdfPage: getPage or the render task rejects with another error.
RenderFailed(t) ==
    /\ t \in tasks /\ t.kind = "render" /\ t.phase \in {"getPage", "rendering"}
    /\ tasks' = tasks \ {t}
    /\ renderTaskRef' = RefAfterSettle(t)
    /\ isPdfRendering' = FALSE
    /\ UNCHANGED <<now, docVars, viewVars, annVars, planDimensions, canvas,
                   isAnalyzing, retry>>

\* img.onload of the image chosen in handleFileChange.
ImageLoaded(t) ==
    /\ t \in tasks /\ t.kind = "image"
    /\ planDimensions' = t.dims
    /\ tasks' = (tasks \ {t}) \cup {[t EXCEPT !.kind = "fit", !.phase = "timer"]}
    /\ UNCHANGED <<now, docVars, viewVars, annVars, isPdfRendering,
                   renderTaskRef, canvas, isAnalyzing, retry>>

\* The setTimeout(() => fitToScreen(w, h)) of a render or image load fires.
FitTimer(t) ==
    /\ t \in tasks /\ t.kind = "fit"
    /\ zoomLevel' = fitToScreen(t.dims.width, t.dims.height).zoomLevel
    /\ panOffset' = fitToScreen(t.dims.width, t.dims.height).panOffset
    /\ tasks' = tasks \ {t}
    /\ UNCHANGED <<now, docVars, isDragging, dragStart, annVars, isPdfRendering,
                   planDimensions, renderTaskRef, canvas, isAnalyzing, retry>>

\* ------------------------------------------------------------------ retryOperation

\* retryOperation(operation, maxRetries, initialDelay) up to its first
\* await, or to its throw when the loop body never runs.
retryOperation(maxRetries, initialDelay) ==
    /\ retry.status \in {"idle", "returned", "thrown"}
    /\ retry' = IF 0 < maxRetries
                THEN RetryState("calling", maxRetries, initialDelay, 0, 0, <<>>, <<>>,
                                NULL, NULL, NULL)
                ELSE RetryState("thrown", maxRetries, initialDelay, 0, 0, <<>>, <<>>,
                                NULL, NULL, NULL)
    /\ UNCHANGED <<now, docVars, viewVars, annVars, renderVars, isAnalyzing>>

\* operation() resolves: return await operation().
OperationResolved ==
    /\ retry.status = "calling"
    /\ retry' = [retry EXCEPT !.status = "returned", !.calls = @ + 1,
                              !.result = Some("response")]
    /\ UNCHANGED <<now, docVars, viewVars, annVars, renderVars, isAnalyzing>>

\* OperationRejected with a backoff of initialDelay * (i + 1).
OperationRejectedLinearBackoff(error) ==
    /\ retry.status = "calling"
    /\ retry' = IF ~isRetryable(error)
                THEN [retry EXCEPT !.status = "thrown", !.calls = @ + 1,
                                   !.failures = Append(@, error),
                                   !.lastError = Some(error), !.error = Some(error)]
                ELSE [retry EXCEPT !.status = "waiting", !.calls = @ + 1,
                                   !.failures = Append(@, error),
                                   !.lastError = Some(error),
                                   !.waits = Append(@, retry.initialDelay * (retry.i + 1))]
    /\ UNCHANGED <<now, docVars, viewVars, annVars, renderVars, isAnalyzing>>

\* operation() rejects with error: the catch block up to its throw or to
\* the await of the backoff timer.
OperationRejected(error) ==
    /\ retry.status = "calling"
    /\ retry' = IF ~isRetryable(error)
                THEN [retry EXCEPT !.status = "thrown", !.calls = @ + 1,
                                   !.failures = Append(@, error),
                                   !.lastError = Some(error), !.error = Some(error)]
                ELSE [retry EXCEPT !.status = "waiting", !.calls = @ + 1,
                                   !.failures = Append(@, error),
                                   !.lastError = Some(error),
                                   !.waits = Append(@, retry.initialDelay * (2 ^ retry.i))]
    /\ UNCHANGED <<now, docVars, viewVars, annVars, renderVars, isAnalyzing>>

\* The backoff timer fires: i++, then the next iteration or throw lastError.
BackoffTimer ==
    /\ retry.status = "waiting"
    /\ retry' = IF retry.i + 1 < retry.maxRetries
                THEN [retry EXCEPT !.status = "calling", !.i = @ + 1]
                ELSE [retry EXCEPT !.status = "thrown", !.i = @ + 1, !.error = retry.lastError]
    /\ UNCHANGED <<now, docVars, viewVars, annVars, renderVars, isAnalyzing>>

\* ------------------------------------------------------------------ specifications

\* The state once an image has been chosen, has loaded and has been fitted
\* to the screen: handleFileChange, ImageLoaded and FitTimer from Init.
InitLoaded ==
    /\ now = 0
    /\ selectedFile = Some([type |-> "image/png", big |-> FALSE])
    /\ fileType = "image"
    /\ pdfDoc = NULL
    /\ pageNum = 1
    /\ numPages = 0
    /\ isPdfRendering = FALSE
    /\ planDimensions = ImageSize
    /\ zoomLevel = fitToScreen(ImageSize.width, ImageSize.height).zoomLevel
    /\ panOffset = fitToScreen(ImageSize.width, ImageSize.height).panOffset
    /\ isDragging = FALSE
    /\ dragStart = Origin
    /\ isAnalyzing = FALSE
    /\ retry = NoRetry
    /\ items = <<>>
    /\ activeTool = "select"
    /\ annotations = <<>>
    /\ currentAnnotation = NULL
    /\ scaleRatio = Zero
    /\ tasks = {}
    /\ renderTaskRef = 0
    /\ canvas = [width |-> 300, height |-> 150, page |-> 0]

\* The state once a PDF has been chosen in src/pages/Takeoff.tsx, has
\* loaded, and its page 1 has been rendered and fitted to the screen:
\* handleFileChange, LoadPdfDone, RenderGotPage, RenderDone and FitTimer
\* from Init.
InitPdfLoaded ==
    /\ now = 0
    /\ selectedFile = Some([type |-> "application/pdf", big |-> FALSE])
    /\ fileType = "pdf"
    /\ pdfDoc = Some(PdfDocument)
    /\ pageNum = 1
    /\ numPages = PdfDocument.numPages
    /\ isPdfRendering = FALSE
    /\ planDimensions = PageViewport(1)
    /\ zoomLevel = fitToScreen(PageViewport(1).width, PageViewport(1).height).zoomLevel
    /\ panOffset = fitToScreen(PageViewport(1).width, PageViewport(1).height).panOffset
    /\ isDragging = FALSE
    /\ dragStart = Origin
    /\ isAnalyzing = FALSE
    /\ retry = NoRetry
    /\ items = <<>>
    /\ activeTool = "select"
    /\ annotations = <<>>
    /\ currentAnnotation = NULL
    /\ scaleRatio = Zero
    /\ tasks = {}
    /\ renderTaskRef = 0
    /\ canvas = [width |-> PageViewport(1).width, height |-> PageViewport(1).height,
                 page |-> 1]

\* The annotation state machine on a loaded document: every tool, clicks at
\* one document point with either button, and finishes.  With one point all
\* paths have length 0, so no calibration applies here; SpecCalib has two.
DrawPoints == {[x |-> 3, y |-> 4]}

NextDraw ==
    \/ \E tool \in ToolType : SelectTool(tool)
    \/ \E p \in DrawPoints, button \in Buttons : handleCanvasMouseDown(p, button)
    \/ \E dist \in PromptResults : handleCanvasDoubleClick(dist)

SpecDraw == InitLoaded /\ [][NextDraw]_vars

\* The events the canvas container binds (onMouseDown, onMouseMove,
\* onMouseUp, onMouseLeave) and the tool palette, on a loaded document.
CanvasEvent ==
    \/ \E p \in DrawPoints, button \in Buttons : handleCanvasMouseDown(p, button)
    \/ \E c \in MoveClients : handleCanvasMouseMove(c)
    \/ handleCanvasMouseUp

NextCanvas ==
    \/ \E tool \in ToolType : SelectTool(tool)
    \/ CanvasEvent

SpecCanvas == InitLoaded /\ [][NextCanvas]_vars

\* PDF files below 20 MB, and page changes by one page either way.
PdfFiles == {f \in Files : f.type = "application/pdf" /\ ~f.big}
PageDeltas == {0 - 1, 1}

\* Takeoff on the pages of a loaded PDF in src/pages/Takeoff.tsx: page
\* changes made once the page shown has rendered, the renders they start,
\* the count and linear tools, and clicks with either button.
PagingTools == {"count", "linear"}

NextCount ==
    \/ \E delta \in PageDeltas : tasks = {} /\ changePage("pages", delta)
    \/ \E t \in tasks : RenderGotPage("pages", t)
    \/ \E t \in tasks : RenderDone("pages", t)
    \/ \E tool \in PagingTools : SelectTool(tool)
    \/ \E p \in DrawPoints, button \in Buttons : handleCanvasMouseDown(p, button)

SpecCount == InitPdfLoaded /\ [][NextCount]_vars

\* The same with finishes of the annotation in progress.
NextPaging ==
    \/ NextCount
    \/ handleCanvasDoubleClick(NULL)

SpecPaging == InitPdfLoaded /\ [][NextPaging]_vars

\* Quantity derivation: an in-progress linear or area annotation of up to
\* MaxRing points on a loaded document, under each calibration, is finished.
\* The linear points have whole pairwise distances (50, 120, 130), so the
\* square root is exact; the area points are the corners of a 100 x 100
\* square.  The calibrations are uncalibrated, 10, 3 and 1/2 pixels per
\* unit, -10 (a negative known distance) and Infinity (a known distance 0).
LinearPoints == {[x |-> 0, y |-> 0], [x |-> 50, y |-> 0], [x |-> 50, y |-> 120]}
AreaPoints ==
    {[x |-> 0, y |-> 0], [x |-> 100, y |-> 0], [x |-> 100, y |-> 100], [x |-> 0, y |-> 100]}
MeasureRatios == {Zero, Ratio(10, 1), Ratio(3, 1), Ratio(1, 2), Ratio(0 - 10, 1), Ratio(1, 0)}
PointSeqs(S) == UNION {[1..n -> S] : n \in 1..MaxRing}

InitMeasure ==
    /\ now = 0
    /\ selectedFile = Some([type |-> "image/png", big |-> FALSE])
    /\ fileType = "image"
    /\ pdfDoc = NULL
    /\ pageNum = 1
    /\ numPages = 0
    /\ isPdfRendering = FALSE
    /\ planDimensions = ImageSize
    /\ zoomLevel = fitToScreen(ImageSize.width, ImageSize.height).zoomLevel
    /\ panOffset = fitToScreen(ImageSize.width, ImageSize.height).panOffset
    /\ isDragging = FALSE
    /\ dragStart = Origin
    /\ isAnalyzing = FALSE
    /\ retry = NoRetry
    /\ items = <<>>
    /\ activeTool \in {"linear", "area"}
    /\ annotations = <<>>
    /\ \E points \in PointSeqs(IF activeTool = "linear" THEN LinearPoints ELSE AreaPoints) :
          currentAnnotation = Some(Annotation(ManualId(now), activeTool, points, FALSE, pageNum))
    /\ scaleRatio \in MeasureRatios
    /\ tasks = {}
    /\ renderTaskRef = 0
    /\ canvas = [width |-> 300, height |-> 150, page |-> 0]

NextMeasure == handleCanvasDoubleClick(NULL)

SpecMeasure == InitMeasure /\ [][NextMeasure]_vars

\* The viewport: the zoom buttons, the fit button, and image loads (small
\* and large, one at a time) with their onload and fit timer, from the
\* start of the component.
ZoomFiles == {f \in Files : f.type = "image/png"}

NextZoom ==
    \/ ZoomIn
    \/ ZoomOut
    \/ FitButton
    \/ \E file \in ZoomFiles : tasks = {} /\ handleFileChange("pages", file, TRUE)
    \/ \E t \in tasks : ImageLoaded(t)
    \/ \E t \in tasks : FitTimer(t)

SpecZoom == Init("pages") /\ [][NextZoom]_vars

\* The viewport over a drawing: the select, pan and linear tools, pointer
\* downs at one document point with either button, pointer moves to one
\* client position and releases, finishes, the fit button, and zoom steps kept within
\* MaxZoomSteps of the fitted level.
ViewTools == {"select", "pan", "linear"}
ViewMoves == {[x |-> Ratio(250, 1), y |-> Ratio(180, 1)]}

NextView ==
    \/ \E tool \in ViewTools : SelectTool(tool)
    \/ \E p \in DrawPoints, button \in Buttons : handleCanvasMouseDown(p, button)
    \/ \E c \in ViewMoves : handleCanvasMouseMove(c)
    \/ handleCanvasMouseUp
    \/ handleCanvasDoubleClick(NULL)
    \/ RatLess(zoomLevel, Ratio(15 + MaxZoomSteps, 10)) /\ ZoomIn
    \/ RatLess(Ratio(15 - MaxZoomSteps, 10), zoomLevel) /\ ZoomOut
    \/ FitButton

SpecView == InitLoaded /\ [][NextView]_vars

\* retryOperation calls, one at a time, with 0..MaxRetries retries and two
\* initial delays, the operation resolving or rejecting with each error.
RetryDelays == {1000, 250}

NextRetry ==
    \/ \E maxRetries \in 0..MaxRetries, initialDelay \in RetryDelays :
          retryOperation(maxRetries, initialDelay)
    \/ OperationResolved
    \/ \E error \in Errors : OperationRejected(error)
    \/ BackoffTimer

SpecRetry == Init("pages") /\ [][NextRetry]_vars

\* Scale calibration on a loaded document: the scale and count tools,
\* clicks at two document points with the main button, and finishes made
\* while the scale tool is active, with every prompt result.
CalibTools == {"scale", "count"}

NextCalib ==
    \/ \E tool \in CalibTools : SelectTool(tool)
    \/ \E p \in ClickPoints : handleCanvasMouseDown(p, 0)
    \/ \E dist \in PromptResults : activeTool = "scale" /\ handleCanvasDoubleClick(dist)

SpecCalib == InitLoaded /\ [][NextCalib]_vars

\* Line items and their ids on a loaded document: the clock, count clicks,
\* deletes, and analyses with every way they settle.
NextItems ==
    \/ Tick
    \/ SelectTool("count")
    \/ \E p \in DrawPoints : handleCanvasMouseDown(p, 0)
    \/ \E id \in DeletableIds : deleteItem(id)
    \/ runAnalysis
    \/ \E t \in tasks, n \in 0..MaxItems : AnalysisResolved(t, n)
    \/ \E t \in tasks : AnalysisRejected(t)
    \/ \E t \in tasks : AnalysisTimer(t)

SpecItems == InitLoaded /\ [][NextItems]_vars

\* Document loads of part_004 between takeoffs: every file the input can
\* hand over, image loads and their fit timers, count clicks and deletes.
NextLoad004 ==
    \/ \E file \in Files, confirmed \in BOOLEAN : handleFileChange("part_004", file, confirmed)
    \/ \E t \in tasks : ImageLoaded(t)
    \/ \E t \in tasks : FitTimer(t)
    \/ SelectTool("count")
    \/ \E p \in DrawPoints : handleCanvasMouseDown(p, 0)
    \/ \E id \in DeletableIds : deleteItem(id)

SpecLoad004 == Init("part_004") /\ [][NextLoad004]_vars

\* Calibrated takeoff of part_004 across document loads.  The user picks
\* the scale or the linear tool while nothing is being drawn, clicks at
\* (0,0) and (3,4) in turn, finishes answering the prompt with 10 or
\* cancelling it, and chooses PDF and image files below 20 MB; the loads
\* stay in flight.
ReloadTools == {"scale", "linear"}
ReloadPrompts == {NULL, Some(<<"1", "0">>)}
ReloadFiles == {f \in Files : ~f.big /\ f.type \in {"application/pdf", "image/png"}}
NextClickPoint ==
    IF currentAnnotation # NULL /\ Len(Val(currentAnnotation).points) % 2 = 1
    THEN [x |-> 3, y |-> 4] ELSE [x |-> 0, y |-> 0]

NextReload004 ==
    \/ \E tool \in ReloadTools : currentAnnotation = NULL /\ SelectTool(tool)
    \/ handleCanvasMouseDown(NextClickPoint, 0)
    \/ \E dist \in ReloadPrompts : handleCanvasDoubleClick(dist)
    \/ \E file \in ReloadFiles : handleFileChange("part_004", file, TRUE)

SpecReload004 == InitLoaded /\ [][NextReload004]_vars

\* PDF loading, paging and page rendering of a revision: PDF files, page
\* changes by one page either way, and every way a load or render settles.
NextRender(rev) ==
    \/ \E file \in PdfFiles : handleFileChange(rev, file, TRUE)
    \/ \E delta \in PageDeltas : changePage(rev, delta)
    \/ \E t \in tasks : LoadPdfDone(rev, t)
    \/ \E t \in tasks : LoadPdfFailed(t)
    \/ \E t \in tasks : RenderGotPage(rev, t)
    \/ \E t \in tasks : RenderDone(rev, t)
    \/ \E t \in tasks : RenderFailed(t)
    \/ \E t \in tasks : FitTimer(t)

NextRenderPages == NextRender("pages")
SpecRenderPages == Init("pages") /\ [][NextRenderPages]_vars

NextRender004 ==
    \/ NextRender("part_004")
    \/ \E t \in tasks : RenderTimer(t)
    \/ \E t \in tasks : RenderCancelled(t)
SpecRender004 == Init("part_004") /\ [][NextRender004]_vars

\* ------------------------------------------------------------------ claims

Ids(seq) == {seq[i].id : i \in 1..Len(seq)}
ManualItemIds == {items[i].id : i \in {j \in 1..Len(items) : items[j].category = "Manual Takeoff"}}
Drawing == currentAnnotation # NULL /\ ~Val(currentAnnotation).completed
DrawnPoints == Len(Val(currentAnnotation).points)

\* C1: a finish (handleCanvasDoubleClick) with the linear, area or scale
\* tool active and fewer than 2 points in the in-progress annotation discards
\* it (currentAnnotation = null) and adds nothing to annotations or items.
C1_DegenerateFinishDiscards ==
    [][\A dist \in PromptResults :
          (/\ handleCanvasDoubleClick(dist)
           /\ Drawing
           /\ activeTool \in {"linear", "area", "scale"}
           /\ DrawnPoints < 2)
          => (/\ currentAnnotation' = NULL
              /\ annotations' = annotations
              /\ items' = items)]_vars

\* C2: every linear or area annotation of the completed set is completed and
\* has at least 2 points.
C2_CompletedHaveTwoPoints ==
    \A i \in 1..Len(annotations) :
        annotations[i].type \in {"linear", "area"}
        => annotations[i].completed /\ Len(annotations[i].points) >= 2

\* C3: whenever an annotation is in progress, its type is the active tool.
C3_DrawingTypeIsActiveTool ==
    currentAnnotation # NULL => Val(currentAnnotation).type = activeTool

\* C4: a scale finish whose known distance is 0 or negative leaves
\* scaleRatio as it was.
C4_NonPositiveDistanceKeepsScale ==
    [][\A dist \in PromptResults :
          (/\ handleCanvasDoubleClick(dist)
           /\ Drawing
           /\ activeTool = "scale"
           /\ DrawnPoints >= 2
           /\ IsNumericInput(dist)
           /\ Val(parseFloat(Val(dist))) <= 0)
          => scaleRatio' = scaleRatio]_vars

\* C5: the completed set holds no annotation of type scale, and every
\* 'Manual Takeoff' item has the id of a count, linear or area annotation.
C5_NoScaleAnnotationCompleted ==
    /\ \A i \in 1..Len(annotations) : annotations[i].type \in {"count", "linear", "area"}
    /\ \A id \in ManualItemIds :
          \E i \in 1..Len(annotations) :
              annotations[i].id = id /\ annotations[i].type \in {"count", "linear", "area"}

\* C6: the ids of the 'Manual Takeoff' line items are exactly the ids of
\* the annotations of the completed set.
C6_ManualItemsMatchAnnotations == ManualItemIds = Ids(annotations)

\* C7: no two annotations, completed or in progress, share an id, and no
\* two line items share an id.
AllAnnotations == annotations \o currentAnnotation
C7_IdsUnique ==
    /\ \A i, j \in 1..Len(AllAnnotations) :
          AllAnnotations[i].id = AllAnnotations[j].id => i = j
    /\ \A i, j \in 1..Len(items) : items[i].id = items[j].id => i = j

\* C8: deleteItem(id) removes every annotation and every item with that id,
\* keeps the others as they were and in their order, and touches nothing
\* else; with no such annotation or item it changes nothing.
KeptIndices(seq, id) == {i \in 1..Len(seq) : seq[i].id # id}
KthKept(seq, id, k) ==
    CHOOSE i \in KeptIndices(seq, id) :
        Cardinality({j \in KeptIndices(seq, id) : j < i}) = k - 1
IsSeqWithoutId(after, before, id) ==
    /\ Len(after) = Cardinality(KeptIndices(before, id))
    /\ \A k \in 1..Len(after) : after[k] = before[KthKept(before, id, k)]
C8_DeleteRemovesExactlyId ==
    [][\A id \in DeletableIds :
          deleteItem(id)
          => (/\ IsSeqWithoutId(items', items, id)
              /\ IsSeqWithoutId(annotations', annotations, id)
              /\ id \notin Ids(items) \cup Ids(annotations)
                    => items' = items /\ annotations' = annotations
              /\ UNCHANGED <<currentAnnotation, activeTool, scaleRatio>>)]_vars

\* deleteItem has removed the first of the two items of one analysis result
\* and kept the second, and an annotation made afterwards is in the set.
C8_Witness ==
    /\ \E t \in 0..MaxClock : AiItemId(t, 1) \in Ids(items) /\ AiItemId(t, 0) \notin Ids(items)
    /\ annotations # <<>>

\* C9: a render that completes (RenderDone) and is applied to
\* planDimensions and the canvas is a render of the page requested last,
\* pageNum.
C9_NoStaleRenderApplied ==
    [][\A t \in tasks : RenderDone("part_004", t) => t.page = pageNum]_vars

\* C10: a scale finish with at least 2 points ends with no in-progress
\* annotation and the select tool, the completed set and the items as
\* before, whatever the prompt returned.
C10_ScaleFinishResets ==
    [][\A dist \in PromptResults :
          (/\ handleCanvasDoubleClick(dist)
           /\ Drawing
           /\ activeTool = "scale"
           /\ DrawnPoints >= 2)
          => (/\ currentAnnotation' = NULL
              /\ activeTool' = "select"
              /\ annotations' = annotations
              /\ items' = items)]_vars

\* A scale finish has calibrated (only finishCalibration sets scaleRatio),
\* the tool is select, nothing is in progress, and items exist.
C10_Witness ==
    /\ scaleRatio # Zero
    /\ activeTool = "select"
    /\ currentAnnotation = NULL
    /\ items # <<>>
    /\ annotations # <<>>

\* C11: in a state in which a linear or area annotation with at least 2
\* points is being drawn, a canvas event finishes it: the event appends
\* that annotation, completed, to the completed set, appends one line item
\* with its id, and returns to Idle (currentAnnotation = null).
FinishesDrawing ==
    /\ currentAnnotation' = NULL
    /\ annotations' = Append(annotations, [Val(currentAnnotation) EXCEPT !.completed = TRUE])
    /\ Len(items') = Len(items) + 1
    /\ items'[Len(items')].id = Val(currentAnnotation).id
    /\ SubSeq(items', 1, Len(items)) = items

C11_FinishIsACanvasEvent ==
    (Drawing /\ activeTool \in {"linear", "area"} /\ DrawnPoints >= 2 /\ Len(items) < MaxItems)
        => ENABLED (CanvasEvent /\ FinishesDrawing)

\* C12: a pointer-down with the count tool on a loaded document appends one
\* completed count annotation whose single point is the document point under
\* the pointer and whose page is the current page, appends one line item
\* with the same id, quantity 1, unit 'ea' and notes naming that page, and
\* leaves currentAnnotation as it was.
C12_CountClickAddsAnnotationAndItem ==
    [][\A p \in DrawPoints, button \in Buttons :
          (handleCanvasMouseDown(p, button) /\ activeTool = "count" /\ selectedFile # NULL)
          => (/\ Len(annotations') = Len(annotations) + 1
              /\ SubSeq(annotations', 1, Len(annotations)) = annotations
              /\ LET a == annotations'[Len(annotations')]
                 IN  /\ a.type = "count"
                     /\ a.completed
                     /\ a.points = <<p>>
                     /\ a.page = pageNum
                     /\ Len(items') = Len(items) + 1
                     /\ SubSeq(items', 1, Len(items)) = items
                     /\ LET i == items'[Len(items')]
                        IN  /\ i.id = a.id
                            /\ i.quantity = 100
                            /\ i.unit = <<"ea">>
                            /\ i.notes = <<"Page", pageNum>>
              /\ currentAnnotation' = currentAnnotation)]_vars

\* A count click was made on page 2 while a linear annotation was being
\* drawn.
C12_Witness ==
    /\ \E i \in 1..Len(annotations) : annotations[i].type = "count" /\ annotations[i].page = 2
    /\ currentAnnotation # NULL

\* C13: changePage(delta) on a loaded PDF sets the current page to
\* min(numPages, max(1, pageNum + delta)) and changes nothing when that is
\* the current page; after every step 1 <= pageNum <= numPages.
C13_ChangePageClamps ==
    [][/\ \A delta \in PageDeltas :
             changePage("pages", delta)
             => LET target == Min(numPages, Max(1, pageNum + delta))
                IN  /\ pageNum' = target
                    /\ target = pageNum => UNCHANGED vars
       /\ 1 <= pageNum' /\ pageNum' <= numPages']_vars

\* The last page has been reached by a page change and has been rendered.
C13_Witness ==
    /\ numPages > 1
    /\ pageNum = numPages
    /\ canvas.page = pageNum
    /\ tasks = {}

\* C14: when the render of the current page completes, a fit-to-bounds
\* with that page's dimensions is set up (the timer that calls fitToScreen),
\* whatever the zoom level.
C14_RenderedPageIsFitted ==
    [][\A t \in tasks :
          (RenderDone("pages", t) /\ t.page = pageNum)
          => \E f \in tasks' : f.kind = "fit" /\ f.dims = PageViewport(pageNum)]_vars

\* C15: a point is recorded in an annotation of the page that is displayed:
\* when a pointer-down starts an annotation or appends a point to it while
\* the current page is rendered on the canvas, the annotation's page is that
\* page; a finish completes the annotation with the page it has.
C15_PointsRecordedOnAnnotationPage ==
    [][\A p \in DrawPoints, button \in Buttons :
          (/\ handleCanvasMouseDown(p, button)
           /\ currentAnnotation' # NULL
           /\ currentAnnotation' # currentAnnotation
           /\ tasks = {}
           /\ canvas.page = pageNum)
          => Val(currentAnnotation').page = canvas.page]_vars

\* C16: handleFileChange with a PDF or an image leaves scaleRatio = 0.
C16_LoadResetsCalibration ==
    [][\A file \in ReloadFiles :
          handleFileChange("part_004", file, TRUE) => scaleRatio' = Zero]_vars

\* A line item measured under a calibration (unit ft) exists, and a load
\* has reset the calibration since.
C16_Witness ==
    /\ \E i \in 1..Len(items) : items[i].unit = <<scaleUnit>>
    /\ scaleRatio = Zero
    /\ fileType = "pdf"

\* C17: a scale finish that changes the calibration value leaves every
\* existing line item with the quantity and unit it had, every existing
\* annotation as it was, and the document, view and render state untouched.
C17_CalibrationFreezesItems ==
    [][\A dist \in ReloadPrompts :
          (handleCanvasDoubleClick(dist) /\ scaleRatio' # scaleRatio)
          => (/\ Len(items') = Len(items)
              /\ \A i \in 1..Len(items) :
                    /\ items'[i].quantity = items[i].quantity
                    /\ items'[i].unit = items[i].unit
              /\ annotations' = annotations
              /\ UNCHANGED <<docVars, viewVars, renderVars>>)]_vars

\* A linear item measured in pixels, before any calibration, is still in
\* pixels with its annotation although a calibration has since been applied.
C17_Witness ==
    /\ IsPositive(scaleRatio)
    /\ \E i \in 1..Len(items) :
          /\ items[i].unit = <<"px">>
          /\ items[i].quantity = 500
          /\ \E k \in 1..Len(annotations) : annotations[k].id = items[i].id

\* The length of the segment from p to q when it is a whole number.
SegmentLength(p, q) ==
    CHOOSE D \in 0..200 : D * D = (q.x - p.x) * (q.x - p.x) + (q.y - p.y) * (q.y - p.y)
\* pathLength(points): the sum of the lengths of the consecutive segments.
RECURSIVE PathLength(_)
PathLength(points) ==
    IF Len(points) < 2 THEN 0
    ELSE SegmentLength(points[1], points[2]) + PathLength(Tail(points))
\* q hundredths is the number a/b (b >= 0; b = 0 makes the number 0, the
\* quotient by Infinity) rounded to 2 decimals.
RoundsTo(q, a, b) == IF b = 0 THEN q = 0 ELSE 2 * Abs(q * b - 100 * a) <= b
LastItem == items'[Len(items')]

\* C18: the item a finish derives from a linear annotation has, when
\* scaleRatio > 0, the quantity pathLength / scaleRatio rounded to 2
\* decimals and the calibration unit, and otherwise the quantity pathLength
\* and the unit px; (0,0)-(50,0) under 10 pixels per ft gives 5.00 ft.
C18_LinearQuantity ==
    [][(handleCanvasDoubleClick(NULL) /\ Drawing /\ activeTool = "linear")
         => LET points == Val(currentAnnotation).points
                L      == PathLength(points)
            IN  /\ Len(items') = Len(items) + 1
                /\ LastItem.id = Val(currentAnnotation).id
                /\ IF scaleRatio.num > 0
                   THEN /\ RoundsTo(LastItem.quantity, L * scaleRatio.den, scaleRatio.num)
                        /\ LastItem.unit = <<"ft">>
                   ELSE /\ LastItem.quantity = 100 * L
                        /\ LastItem.unit = <<"px">>
                /\ (points = <<[x |-> 0, y |-> 0], [x |-> 50, y |-> 0]>>
                      /\ scaleRatio = Ratio(10, 1))
                     => LastItem.quantity = 500 /\ LastItem.unit = <<"ft">>]_vars

\* A three-segment path of length 50 + 120 + 130 = 300 pixels, finished
\* under 3 pixels per ft, stands as a 100.00 ft item.
C18_Witness ==
    /\ scaleRatio = Ratio(3, 1)
    /\ currentAnnotation = NULL
    /\ Len(annotations) = 1 /\ Len(items) = 1
    /\ annotations[1].type = "linear"
    /\ annotations[1].points = <<[x |-> 0, y |-> 0], [x |-> 50, y |-> 0],
                                 [x |-> 50, y |-> 120], [x |-> 0, y |-> 0]>>
    /\ items[1].quantity = 10000
    /\ items[1].unit = <<"ft">>

\* points in the opposite winding.
Reversed(points) == [i \in 1..Len(points) |-> points[Len(points) + 1 - i]]
Square == <<[x |-> 0, y |-> 0], [x |-> 100, y |-> 0], [x |-> 100, y |-> 100], [x |-> 0, y |-> 100]>>

\* C19: the item a finish derives from an area annotation has, when
\* scaleRatio > 0, the quantity polygonArea / scaleRatio^2 rounded to 2
\* decimals and the unit sq ft, and otherwise the quantity polygonArea and
\* the unit sq px; polygonArea is 0 for fewer than 3 points and the same in
\* either winding; the 100 x 100 square gives 10000 sq px uncalibrated and
\* 10000 / k^2 under a calibration k.
C19_AreaQuantity ==
    [][(handleCanvasDoubleClick(NULL) /\ Drawing /\ activeTool = "area")
         => LET points == Val(currentAnnotation).points
                area2  == calculatePolygonArea2(points)
                k      == scaleRatio
            IN  /\ Len(items') = Len(items) + 1
                /\ LastItem.id = Val(currentAnnotation).id
                /\ IF k.num > 0
                   THEN /\ RoundsTo(LastItem.quantity, area2 * k.den * k.den, 2 * k.num * k.num)
                        /\ LastItem.unit = <<"sq", "ft">>
                   ELSE /\ 2 * LastItem.quantity = 100 * area2
                        /\ LastItem.unit = <<"sq", "px">>
                /\ area2 >= 0
                /\ Len(points) < 3 => area2 = 0 /\ LastItem.quantity = 0
                /\ calculatePolygonArea2(Reversed(points)) = area2
                /\ points \in {Square, Reversed(Square)}
                     => /\ area2 = 2 * 10000
                        /\ k.num <= 0 => LastItem.quantity = 100 * 10000
                        /\ k.num > 0 =>
                             RoundsTo(LastItem.quantity, 10000 * k.den * k.den, k.num * k.num)]_vars

\* The 100 x 100 square drawn clockwise on screen, finished under 10 pixels
\* per ft, stands as a 100.00 sq ft item.
C19_Witness ==
    /\ scaleRatio = Ratio(10, 1)
    /\ currentAnnotation = NULL
    /\ Len(annotations) = 1 /\ Len(items) = 1
    /\ annotations[1].type = "area"
    /\ annotations[1].points = Reversed(Square)
    /\ items[1].quantity = 10000
    /\ items[1].unit = <<"sq", "ft">>

\* The text s is a number: an optional sign and then digits only, which is
\* when Number(s) is not NaN for the texts of PromptTexts.
NumericText(s) ==
    LET body == IF s # <<>> /\ Head(s) \in {"-", "+"} THEN Tail(s) ELSE s
    IN  body # <<>> /\ \A i \in 1..Len(body) : body[i] \in Digits

\* C20: a scale finish whose segment has pixel length 0, or whose prompt
\* was cancelled or answered with a text that is not a number, leaves
\* scaleRatio as it was.
C20_InvalidCalibrationKeepsScale ==
    [][\A dist \in PromptResults :
          (/\ handleCanvasDoubleClick(dist)
           /\ Drawing
           /\ activeTool = "scale"
           /\ DrawnPoints >= 2
           /\ \/ PathLength(Val(currentAnnotation).points) = 0
              \/ dist = NULL
              \/ ~NumericText(Val(dist)))
          => scaleRatio' = scaleRatio]_vars

\* C21: the zoom level is at least 0.05 and at most 5.
C21_ZoomWithinBounds ==
    /\ ~RatLess(zoomLevel, Ratio(5, 100))
    /\ ~RatLess(Ratio(5, 1), zoomLevel)

\* A large image has been loaded and fitted at the lower bound, and the
\* zoom buttons have since taken the zoom level to the upper bound.
C21_Witness ==
    /\ planDimensions = LargeImageSize
    /\ tasks = {}
    /\ zoomLevel = Ratio(5, 1)
    /\ panOffset = fitToScreen(LargeImageSize.width, LargeImageSize.height).panOffset

\* The pan offset that centers content of size w x h shown at zoom z.
Centered(w, h, z) ==
    [x |-> RatMul(RatSub(Ratio(ContainerW, 1), RatMul(Ratio(w, 1), z)), Ratio(1, 2)),
     y |-> RatMul(RatSub(Ratio(ContainerH, 1), RatMul(Ratio(h, 1), z)), Ratio(1, 2))]

\* C22: after a fitToScreen(w, h), from the fit timer of a load or from the
\* fit button, the pan offset centers the content at the zoom level that
\* call has set.
C22_FitCentersAtAppliedZoom ==
    [][/\ \A t \in tasks :
             FitTimer(t) => panOffset' = Centered(t.dims.width, t.dims.height, zoomLevel')
       /\ (FitButton /\ planDimensions.width > 0 /\ planDimensions.height > 0)
             => panOffset' = Centered(planDimensions.width, planDimensions.height, zoomLevel')
      ]_vars

\* C23: the Zoom Out button sets the zoom level to max(0.05, zoom - 0.1)
\* and never raises it; the Zoom In button sets it to min(5, zoom + 0.1)
\* and never lowers it.
C23_ZoomStepsWithinBounds ==
    [][/\ ZoomOut => /\ zoomLevel' = RatMax(Ratio(5, 100), RatSub(zoomLevel, Ratio(1, 10)))
                     /\ ~RatLess(zoomLevel, zoomLevel')
       /\ ZoomIn => /\ zoomLevel' = RatMin(Ratio(5, 1), RatAdd(zoomLevel, Ratio(1, 10)))
                    /\ ~RatLess(zoomLevel', zoomLevel)]_vars

\* A step of a zoom or pan operation: a zoom button, the fit button, a
\* pointer-down that starts a pan drag, a pointer move, a release.
ViewOperation ==
    \/ ZoomIn
    \/ ZoomOut
    \/ FitButton
    \/ \E p \in DrawPoints, button \in Buttons :
          /\ handleCanvasMouseDown(p, button)
          /\ activeTool = "pan" \/ (activeTool = "select" /\ button = 1)
    \/ \E c \in ViewMoves : handleCanvasMouseMove(c)
    \/ handleCanvasMouseUp

\* C24: a zoom or pan operation leaves the completed annotations and the
\* in-progress annotation, points included, as they were, and changes
\* nothing but zoomLevel, panOffset, isDragging and dragStart: a step that
\* changes anything else is not a step of a zoom or pan operation.
C24_ViewLeavesAnnotations ==
    [][(\/ annotations' # annotations
        \/ currentAnnotation' # currentAnnotation
        \/ <<now, docVars, items, activeTool, scaleRatio, renderVars, isAnalyzing>>' #
              <<now, docVars, items, activeTool, scaleRatio, renderVars, isAnalyzing>>)
         => ~ViewOperation]_vars

\* With a completed annotation and an annotation in progress at (3,4), the
\* view has been zoomed away from the fitted level and is being dragged
\* away from the fitted offset.
C24_Witness ==
    /\ annotations # <<>>
    /\ currentAnnotation # NULL
    /\ Val(currentAnnotation).points = <<[x |-> 3, y |-> 4]>>
    /\ annotations[1].points = <<[x |-> 3, y |-> 4], [x |-> 3, y |-> 4]>>
    /\ zoomLevel = Ratio(16, 10)
    /\ isDragging
    /\ panOffset # fitToScreen(ImageSize.width, ImageSize.height).panOffset

\* C25: on a loaded document, a pointer-down under the select or pan tool
\* leaves the annotations, the in-progress annotation and the items as they
\* were; under the pan tool, or with the middle button under select, it
\* starts a drag from the pointer position, and otherwise changes nothing.
\* A pointer move sets the pan offset to the pointer position minus the
\* drag origin while the drag lasts and leaves it alone otherwise; a
\* release or leave ends the drag.
C25_SelectAndPanNeverDraw ==
    [][/\ \A p \in DrawPoints, button \in Buttons :
             (activeTool \in {"select", "pan"} /\ handleCanvasMouseDown(p, button))
             => /\ UNCHANGED <<annotations, currentAnnotation, items>>
                /\ IF activeTool = "pan" \/ button = 1
                   THEN /\ isDragging'
                        /\ dragStart' = [x |-> RatSub(ClientOf(p).x, panOffset.x),
                                          y |-> RatSub(ClientOf(p).y, panOffset.y)]
                        /\ UNCHANGED <<zoomLevel, panOffset>>
                   ELSE UNCHANGED viewVars
       /\ \A c \in ViewMoves :
             handleCanvasMouseMove(c)
             => /\ isDragging' = isDragging
                /\ panOffset' = IF isDragging
                                THEN [x |-> RatSub(c.x, dragStart.x),
                                      y |-> RatSub(c.y, dragStart.y)]
                                ELSE panOffset
       /\ handleCanvasMouseUp => ~isDragging'
      ]_vars

\* Under the select tool, with a linear annotation left in progress, a
\* drag started with the middle button at (3,4) has moved the view so that
\* the pointer position is still over (3,4).
C25_Witness ==
    /\ activeTool = "select"
    /\ isDragging
    /\ currentAnnotation # NULL
    /\ Val(currentAnnotation).type = "linear"
    /\ zoomLevel = Ratio(14, 10)
    /\ dragStart = [x |-> RatMul(zoomLevel, Ratio(3, 1)), y |-> RatMul(zoomLevel, Ratio(4, 1))]
    /\ \E c \in ViewMoves : ClientOf([x |-> 3, y |-> 4]) = c

\* C26: a load of a PDF or an image leaves no annotation in progress.
C26_LoadLeavesIdle ==
    [][\A file \in ReloadFiles :
          handleFileChange("part_004", file, TRUE) => currentAnnotation' = NULL]_vars

\* C27: isPdfRendering is true whenever a PDF load or a page render is in
\* flight.
C27_IndicatorTracksRenders ==
    (\E t \in tasks : t.kind \in {"load", "render"}) => isPdfRendering

\* C28: with a document loaded, a handleFileChange with a file that is
\* neither a PDF nor an image leaves the document, the annotations, the
\* items, the calibration, the viewport and the current page as they were.
C28_UnsupportedFileRejected ==
    [][\A file \in Files, confirmed \in BOOLEAN :
          (/\ selectedFile # NULL
           /\ file.type = "text/plain"
           /\ handleFileChange("part_004", file, confirmed))
          => UNCHANGED <<selectedFile, fileType, pdfDoc, annotations, items, scaleRatio,
                         zoomLevel, panOffset, pageNum>>]_vars

\* The errors C29 and C30 call retryable: status or code 503 or 504, or a
\* message containing UNAVAILABLE, timeout or Overloaded.
NamedRetryable(error) ==
    \/ error.status \in {Some(503), Some(504)}
    \/ error.code \in {Some(503), Some(504)}
    \/ includes(error.message, <<"U", "N", "A", "V", "A", "I", "L", "A", "B", "L", "E">>)
    \/ includes(error.message, <<"t", "i", "m", "e", "o", "u", "t">>)
    \/ includes(error.message, <<"O", "v", "e", "r", "l", "o", "a", "d", "e", "d">>)

\* C29: operation is invoked at most maxRetries times; a call that has
\* returned returned the result of its first successful invocation, the
\* last one made; a call that has thrown after failures that were all
\* retryable threw the error of the last invocation; the k-th wait is
\* initialDelay * 2^(k-1), and invocation i + 1 (counting from 0) comes
\* after i + 1 such waits, the last of them initialDelay * 2^i.
C29_RetryBounded ==
    /\ retry.calls <= retry.maxRetries
    /\ retry.status = "returned"
         => /\ retry.result = Some("response")
            /\ retry.calls = Len(retry.failures) + 1
            /\ ~ENABLED (OperationResolved \/ BackoffTimer
                          \/ \E error \in Errors : OperationRejected(error))
    /\ (/\ retry.status = "thrown"
        /\ retry.failures # <<>>
        /\ \A k \in 1..Len(retry.failures) : NamedRetryable(retry.failures[k]))
         => retry.error = Some(retry.failures[Len(retry.failures)])
    /\ \A k \in 1..Len(retry.waits) : retry.waits[k] = retry.initialDelay * (2 ^ (k - 1))
    /\ retry.status = "calling" => Len(retry.waits) = retry.calls /\ retry.i = retry.calls

\* Three invocations failed with retryable errors, after waits of 1000 and
\* 2000 ms, and the call has thrown the error of the third.
C29_Witness ==
    /\ retry.status = "thrown"
    /\ retry.maxRetries = 3
    /\ retry.calls = 3
    /\ retry.waits = <<1000, 2000, 4000>>
    /\ retry.failures = <<RetryError(Some(503), NULL, <<>>), RetryError(NULL, NULL, MsgTimeout),
                          RetryError(Some(504), NULL, <<>>)>>
    /\ retry.error = Some(RetryError(Some(504), NULL, <<>>))

\* C30: when an invocation fails with an error that is not retryable, the
\* call throws that error at once, with no backoff wait set; and after a
\* throw nothing follows but a new call.
C30_NonRetryableRethrown ==
    [][/\ \A error \in Errors :
             (OperationRejected(error) /\ ~NamedRetryable(error))
             => /\ retry'.status = "thrown"
                /\ retry'.error = Some(error)
                /\ retry'.waits = retry.waits
                /\ retry'.calls = retry.calls + 1
       /\ retry.status = "thrown" => retry'.status # "waiting" /\ retry'.calls = 0
      ]_vars

\* After two retryable failures and their waits, the third invocation
\* failed with a status 400 and the call has thrown that error.
C30_Witness ==
    /\ retry.status = "thrown"
    /\ retry.calls = 3
    /\ retry.waits = <<250, 500>>
    /\ retry.failures[3] = RetryError(Some(400), NULL, MsgBad)
    /\ retry.error = Some(RetryError(Some(400), NULL, MsgBad))

====
